---- MODULE Spec2Model ----
(***************************************************************************)
(* Gerador de CV ATS: the plain-text resume classifier (processar_linha),  *)
(* the document composer (criar_pdf_ats_formatado) and the two HTTP        *)
(* endpoints that drive them.                                              *)
(*                                                                         *)
(* A line of text is a sequence of characters; a character is a string.    *)
(* Characters outside ASCII are written as named tokens: "bullet" is       *)
(* U+2022, "E^" is U+00CA (E circumflex), "e^" is U+00EA.                  *)
(***************************************************************************)
EXTENDS Integers, Sequences, FiniteSets, TLC

VARIABLES
  \* criar_pdf_ats_formatado and processar_linha
  texto_cv, nome_candidato, linhas, contatos, elementos, contexto,
  i,          \* the line the body loop is at (lines count from 1)
  pc,         \* where criar_pdf_ats_formatado is
  chamada,    \* the arguments of the last call of processar_linha
  historico,  \* the contexts processar_linha returned, in order
  build,      \* how doc.build ended
  doc,        \* what criar_pdf_ats_formatado returned or raised
  \* the HTTP request
  endpoint, payload,
  hpc,            \* where the endpoint's coroutine is
  chamadas_ia,    \* the calls of chamar_agente_ia made for the request
  resposta_bruta, \* the text the AI returned for the analysis
  vaga_info_dict,
  resposta,       \* the HTTP response
  \* PDF generations running in one process
  heap,           \* the flowable objects alive, and who created each
  pedidos         \* per generation: where it is and its block sequence

cvVars == <<texto_cv, nome_candidato, linhas, contatos, elementos, contexto,
            i, pc, chamada, historico, build, doc>>

httpVars == <<endpoint, payload, hpc, chamadas_ia, resposta_bruta,
              vaga_info_dict, resposta>>

concVars == <<heap, pedidos>>

vars == <<cvVars, httpVars, concVars>>

---------------------------------------------------------------------------
(* Bounds of the model *)

MaxLen == 4

MaxLinhas == 5

---------------------------------------------------------------------------
(* Characters *)

BULLET == "bullet"

Maiusculas ==
  <<"A","B","C","D","E","F","G","H","I","J","K","L","M",
    "N","O","P","Q","R","S","T","U","V","W","X","Y","Z">>

Minusculas ==
  <<"a","b","c","d","e","f","g","h","i","j","k","l","m",
    "n","o","p","q","r","s","t","u","v","w","x","y","z">>

\* the class [A-Z] of the heading pattern
AZ == {Maiusculas[k] : k \in 1..26}

\* what str.strip() removes and the pattern's \s matches
Whitespace == {" ", "\t", "\r"}

\* str.upper() on one character
UpperChar(c) ==
  IF \E k \in 1..26 : Minusculas[k] = c
    THEN Maiusculas[CHOOSE k \in 1..26 : Minusculas[k] = c]
    ELSE IF c = "e^" THEN "E^" ELSE c

Upper(s) == [k \in 1..Len(s) |-> UpperChar(s[k])]

RECURSIVE LStrip(_)
LStrip(s) ==
  IF s # <<>> /\ Head(s) \in Whitespace THEN LStrip(Tail(s)) ELSE s

RECURSIVE RStrip(_)
RStrip(s) ==
  IF s # <<>> /\ s[Len(s)] \in Whitespace
    THEN RStrip(SubSeq(s, 1, Len(s) - 1))
    ELSE s

Strip(s) == RStrip(LStrip(s))

Contem(s, c) == \E k \in 1..Len(s) : s[k] = c

\* str.split('\n'): the pieces between the newlines, always at least one
RECURSIVE Split(_)
Split(s) ==
  IF \E k \in 1..Len(s) : s[k] = "\n"
    THEN LET p == CHOOSE k \in 1..Len(s) :
                    s[k] = "\n" /\ \A j \in 1..(k - 1) : s[j] # "\n"
         IN  <<SubSeq(s, 1, p - 1)>> \o Split(SubSeq(s, p + 1, Len(s)))
    ELSE <<s>>

---------------------------------------------------------------------------
(* Flowables *)

Paragraph(texto, estilo, bulletText) ==
  [classe |-> "Paragraph", texto |-> texto, estilo |-> estilo,
   bulletText |-> bulletText, dados |-> <<>>]

Spacer ==
  [classe |-> "Spacer", texto |-> <<>>, estilo |-> "None",
   bulletText |-> "None", dados |-> <<>>]

divisor_secao ==
  [classe |-> "HRFlowable", texto |-> <<>>, estilo |-> "None",
   bulletText |-> "None", dados |-> <<>>]

criar_tabela_contato(dados) ==
  [classe |-> "Table", texto |-> <<>>, estilo |-> "None",
   bulletText |-> "None", dados |-> dados]

---------------------------------------------------------------------------
(* processar_linha *)

Contextos == {"inicio", "secao", "subtitulo", "detalhe", "item", "texto"}

\* re.match(r"^[A-Z][A-Z\s]+:$", l) on a stripped line
TituloSecaoMatch(l) ==
  /\ Len(l) >= 3
  /\ l[1] \in AZ
  /\ l[Len(l)] = ":"
  /\ \A k \in 2..(Len(l) - 1) : l[k] \in AZ \cup Whitespace

\* linha.startswith(('bullet', '-', '*'))
ComecaComMarcador(l) == l # <<>> /\ l[1] \in {BULLET, "-", "*"}

EhSubtitulo_SemContexto(l, ctx) == ~Contem(l, BULLET)

\* the subtitle test: contexto == 'secao' and 'bullet' not in linha
EhSubtitulo_Marcador(l, ctx) == ctx = "secao" /\ ~ComecaComMarcador(l)

EhSubtitulo(l, ctx) == ctx = "secao" /\ ~Contem(l, BULLET)

\* the detail test: contexto in ['subtitulo', 'detalhe'] and '|' in linha
EhDetalhe(l, ctx) == ctx \in {"subtitulo", "detalhe"} /\ Contem(l, "|")

TextoItem_SemStrip(l) == SubSeq(l, 2, Len(l))

\* texto = linha[1:].strip()
TextoItem(l) == Strip(SubSeq(l, 2, Len(l)))

\* processar_linha after "linha = linha.strip()" and the blank-line return
Classificar(linha, elementos_, contexto_) ==
  IF TituloSecaoMatch(linha) THEN
    LET base   == IF elementos_ # <<>> THEN Append(elementos_, Spacer)
                                       ELSE elementos_
        titulo == Strip(SubSeq(linha, 1, Len(linha) - 1))
    IN  [elementos |-> Append(base, Paragraph(titulo, "TituloSecao", "None")),
         contexto  |-> "secao"]
  ELSE IF EhSubtitulo(linha, contexto_) THEN
    [elementos |-> Append(elementos_, Paragraph(linha, "Subtitulo", "None")),
     contexto  |-> "subtitulo"]
  ELSE IF EhDetalhe(linha, contexto_) THEN
    [elementos |-> Append(elementos_, Paragraph(linha, "Detalhe", "None")),
     contexto  |-> "detalhe"]
  ELSE IF ComecaComMarcador(linha) THEN
    LET texto == TextoItem(linha)
    IN  [elementos |-> Append(elementos_, Paragraph(texto, "ItemLista", BULLET)),
         contexto  |-> "item"]
  ELSE
    [elementos |-> Append(elementos_, Paragraph(linha, "Detalhe", "None")),
     contexto  |-> "texto"]

ProcessarLinha_SemRetornoVazio(linha_, elementos_, contexto_) ==
  Classificar(Strip(linha_), elementos_, contexto_)

ProcessarLinha(linha_, elementos_, contexto_) ==
  IF Strip(linha_) = <<>>
    THEN [elementos |-> elementos_, contexto |-> contexto_]
    ELSE Classificar(Strip(linha_), elementos_, contexto_)

---------------------------------------------------------------------------
(* Inputs *)

Alfabeto == {"A", "E^", "a", " ", ":", BULLET, "-", "*", "|"}

SeqsAte(S, n) == UNION {[1..m -> S] : m \in 0..n}

\* 'EXPERIENCIA PROFISSIONAL:' with its E circumflex
EXPERIENCIA_PROFISSIONAL ==
  <<"E","X","P","E","R","I","E^","N","C","I","A"," ",
    "P","R","O","F","I","S","S","I","O","N","A","L",":">>

\* The lines of the resume text
\* "Experiencia:\nDesenvolvedor\nEmpresa X | 2020-2022\n(bullet) Fez coisas"
LinhaExperiencia == <<"E","x","p","e","r","i","e^","n","c","i","a",":">>

LinhaDesenvolvedor == <<"D","e","s","e","n","v","o","l","v","e","d","o","r">>

LinhaEmpresa ==
  <<"E","m","p","r","e","s","a"," ","X"," ","|"," ",
    "2","0","2","0","-","2","0","2","2">>

LinhaFezCoisas == <<BULLET," ","F","e","z"," ","c","o","i","s","a","s">>

LinhasExemplo ==
  <<LinhaExperiencia, LinhaDesenvolvedor, LinhaEmpresa, LinhaFezCoisas>>

\* Lines a resume text is made of: blank, whitespace, a section heading, a
\* plain line, a line with a pipe, a dash item, a bullet item with a pipe
Catalogo ==
  { <<>>, <<" ">>, <<"A","B",":">>, <<"a">>, <<"a","|","b">>,
    <<"-","a">>, <<BULLET,"a","|">> }

Nomes == { <<"M","a","r","i","a"," ","S","o","u","z","a">>, <<"j","e^">> }

RECURSIVE Join(_)
Join(ls) ==
  IF ls = <<>> THEN <<>>
  ELSE IF Len(ls) = 1 THEN ls[1]
  ELSE ls[1] \o <<"\n">> \o Join(Tail(ls))

NomeBloco_SemUpper(nome) == Paragraph(nome, "Nome", "None")

\* Paragraph(nome_candidato.upper(), estilo_nome)
NomeBloco(nome) == Paragraph(Upper(nome), "Nome", "None")

SemPayload ==
  [descricao_vaga |-> <<>>, descricao_none |-> TRUE, vaga_info |-> "None",
   nomeCompleto |-> <<>>]

SemResposta == [status |-> 0, corpo |-> "nenhum", error |-> FALSE,
                raw_response |-> "nenhum"]

\* the module has been imported: divisor_secao is the one flowable alive
\* (creator 0 is the import of the module, creator p >= 1 a generation)
HeapDoModulo == <<[criador |-> 0, bloco |-> divisor_secao]>>

\* no generation is followed as one of several
SemPedidos ==
  /\ heap = HeapDoModulo
  /\ pedidos = <<>>

\* no request: the functions of cv_generator are called on their own
SemRequisicao ==
  /\ endpoint = "nenhum"
  /\ payload = SemPayload
  /\ hpc = "fim"
  /\ chamadas_ia = <<>>
  /\ resposta_bruta = "nenhum"
  /\ vaga_info_dict = "nenhum"
  /\ resposta = SemResposta
  /\ SemPedidos

SemChamada == [linha |-> <<>>, contexto |-> "inicio", antes |-> <<>>, feita |-> FALSE]

---------------------------------------------------------------------------
(* One step of "for linha in ...: contexto = processar_linha(...)" *)

ProcessarProxima ==
  /\ pc = "loop"
  /\ i <= Len(linhas)
  /\ LET r == ProcessarLinha(linhas[i], elementos, contexto) IN
       /\ elementos' = r.elementos
       /\ contexto' = r.contexto
  /\ chamada' = [linha |-> linhas[i], contexto |-> contexto,
                 antes |-> elementos, feita |-> TRUE]
  /\ historico' = Append(historico, ProcessarLinha(linhas[i], elementos, contexto).contexto)
  /\ i' = i + 1
  /\ UNCHANGED <<texto_cv, nome_candidato, linhas, contatos, pc, build, doc>>
  /\ UNCHANGED httpVars
  /\ UNCHANGED concVars

---------------------------------------------------------------------------
(* criar_pdf_ats_formatado *)

\* the contact loop over linhas[1:], which stops at the first line that is
\* blank or a section heading
RECURSIVE ColetarContatos(_)
ColetarContatos(ls) ==
  IF ls = <<>> THEN <<>>
  ELSE IF Strip(Head(ls)) # <<>> /\ ~TituloSecaoMatch(Strip(Head(ls)))
    THEN <<Strip(Head(ls))>> \o ColetarContatos(Tail(ls))
    ELSE <<>>

InicioCorpo_SemNome(cs) == Len(cs) + 1

\* the first line of linhas[len(contatos)+1:], counting lines from 1
InicioCorpo(cs) == Len(cs) + 2

\* elementos when the body loop starts: the name, then the contact table
\* and the module's divisor_secao when there are contact lines
ElementosIniciais(nome, cs) ==
  <<NomeBloco(nome)>> \o
  (IF cs # <<>> THEN <<criar_tabela_contato(cs), divisor_secao>> ELSE <<>>)

\* from "elementos = []" to "contexto = 'inicio'"
Cabecalho ==
  /\ pc = "inicio"
  /\ LET ls == Split(texto_cv)
         cs == ColetarContatos(Tail(ls))
     IN  /\ linhas' = ls
         /\ contatos' = cs
         /\ elementos' = ElementosIniciais(nome_candidato, cs)
         /\ i' = InicioCorpo(cs)
  /\ contexto' = "inicio"
  /\ pc' = "loop"
  /\ UNCHANGED <<texto_cv, nome_candidato, chamada, historico, build, doc>>
  /\ UNCHANGED httpVars
  /\ UNCHANGED concVars

\* doc.build(elementos) succeeds: the buffer is returned
BuildOk ==
  /\ pc = "loop"
  /\ i > Len(linhas)
  /\ build' = "ok"
  /\ doc' = "buffer"
  /\ pc' = "retornou"
  /\ UNCHANGED <<texto_cv, nome_candidato, linhas, contatos, elementos,
                 contexto, i, chamada, historico>>
  /\ UNCHANGED httpVars
  /\ UNCHANGED concVars

BuildFalha_DevolveBuffer ==
  /\ pc = "loop"
  /\ i > Len(linhas)
  /\ build' = "falhou"
  /\ doc' = "buffer"
  /\ pc' = "retornou"
  /\ UNCHANGED <<texto_cv, nome_candidato, linhas, contatos, elementos,
                 contexto, i, chamada, historico>>
  /\ UNCHANGED httpVars
  /\ UNCHANGED concVars

\* doc.build(elementos) raises: the exception is wrapped in a RuntimeError
BuildFalha ==
  /\ pc = "loop"
  /\ i > Len(linhas)
  /\ build' = "falhou"
  /\ doc' = "RuntimeError"
  /\ pc' = "excecao"
  /\ UNCHANGED <<texto_cv, nome_candidato, linhas, contatos, elementos,
                 contexto, i, chamada, historico>>
  /\ UNCHANGED httpVars
  /\ UNCHANGED concVars

InitCV ==
  /\ texto_cv \in {Join(ls) : ls \in SeqsAte(Catalogo, MaxLinhas)}
  /\ nome_candidato \in Nomes
  /\ linhas = <<>>
  /\ contatos = <<>>
  /\ elementos = <<>>
  /\ contexto = "inicio"
  /\ i = 1
  /\ pc = "inicio"
  /\ chamada = SemChamada
  /\ historico = <<>>
  /\ build = "nao"
  /\ doc = "nenhum"
  /\ SemRequisicao

NextCV == Cabecalho \/ ProcessarProxima \/ BuildOk \/ BuildFalha

SpecCV == InitCV /\ [][NextCV]_vars

---------------------------------------------------------------------------
(* processar_linha called once, on any line, in any context *)

InitLinha ==
  /\ texto_cv = <<>>
  /\ nome_candidato = <<>>
  /\ \E l \in SeqsAte(Alfabeto, MaxLen) \cup {EXPERIENCIA_PROFISSIONAL} :
       linhas = <<l>>
  /\ contatos = <<>>
  /\ elementos \in {<<>>, <<NomeBloco(<<"a">>)>>}
  /\ contexto \in Contextos
  /\ i = 1
  /\ pc = "loop"
  /\ chamada = SemChamada
  /\ historico = <<>>
  /\ build = "nao"
  /\ doc = "nenhum"
  /\ SemRequisicao

SpecLinha == InitLinha /\ [][ProcessarProxima]_vars

---------------------------------------------------------------------------
(* processar_linha folded over a sequence of lines, from context 'inicio'  *)
(* and an empty output sequence                                            *)

InitFold ==
  /\ texto_cv = <<>>
  /\ nome_candidato = <<>>
  /\ linhas \in SeqsAte(Catalogo, MaxLinhas) \cup {LinhasExemplo}
  /\ contatos = <<>>
  /\ elementos = <<>>
  /\ contexto = "inicio"
  /\ i = 1
  /\ pc = "loop"
  /\ chamada = SemChamada
  /\ historico = <<>>
  /\ build = "nao"
  /\ doc = "nenhum"
  /\ SemRequisicao

SpecFold == InitFold /\ [][ProcessarProxima]_vars

---------------------------------------------------------------------------
(* core/ai.py: the AI collaborator *)

\* What the AI may answer to the analysis prompt, after
\* limpar_codigo_markdown:
\*   objeto            {...} that decodes to a dict VagaInfoOutput accepts
\*   objeto_vazio      {}
\*   objeto_com_error  {...} that decodes to a dict with a non-empty "error"
\*   objeto_invalido   {...} that decodes to a dict VagaInfoOutput rejects
\*   chaves_invalidas  text with {...} in it that does not decode
\*   sem_json          text without braces that does not decode
\*   json_nao_objeto   text without braces that decodes: [1], 42, "abc"
\*   json_falso        text without braces that decodes: null, [], 0
RespostasAnalise ==
  {"objeto", "objeto_vazio", "objeto_com_error", "objeto_invalido",
   "chaves_invalidas", "sem_json", "json_nao_objeto", "json_falso"}

\* re.search(r'\{.*\}', resposta_bruta, re.DOTALL)
JsonMatch(r) ==
  r \in {"objeto", "objeto_vazio", "objeto_com_error", "objeto_invalido",
         "chaves_invalidas"}

\* json.loads: the kind of value decoded, or JSONDecodeError
JsonLoads(r) ==
  CASE r = "objeto"           -> "dict"
    [] r = "objeto_vazio"     -> "dict_vazio"
    [] r = "objeto_com_error" -> "dict_error"
    [] r = "objeto_invalido"  -> "dict_invalido"
    [] r = "json_nao_objeto"  -> "nao_dict"
    [] r = "json_falso"       -> "nao_dict_falso"
    [] OTHER                  -> "JSONDecodeError"

\* the dict {"error": ..., "raw_response": resposta_bruta}
DictFalhaJson == "dict_falha_json"

\* analisar_vaga_ia once chamar_agente_ia has returned r
AnalisarVagaIA(r) ==
  IF JsonMatch(r)
    THEN (IF JsonLoads(r) = "JSONDecodeError" THEN DictFalhaJson
                                               ELSE JsonLoads(r))
    ELSE (IF JsonLoads(r) = "JSONDecodeError" THEN DictFalhaJson
                                               ELSE JsonLoads(r))

\* isinstance(v, dict)
EhDict(v) ==
  v \in {"dict", "dict_vazio", "dict_error", "dict_invalido", DictFalhaJson}

\* isinstance(v, dict) and v.get("error")
TemError(v) == v \in {"dict_error", DictFalhaJson}

\* bool(v)
Verdadeiro(v) == v \notin {"dict_vazio", "nao_dict_falso"}

\* VagaInfoOutput(**v) raises no ValidationError
ValidaVagaInfo(v) == v \in {"dict", "dict_vazio"}

\* the resume drafts the AI may answer with
TextosIA ==
  { <<>>, <<" ", "\n", " ">>, <<"a">>,
    Join(<< <<"a">>, <<"a","|","b">>, <<>>, <<"A","B",":">>, <<"-","a">> >>) }

---------------------------------------------------------------------------
(* main.py: the endpoints *)

Responder(st, corpo, err, raw) ==
  [status |-> st, corpo |-> corpo, error |-> err, raw_response |-> raw]

\* HTTPException(status_code=st, detail=...)
HTTPException(st) == Responder(st, "detail", FALSE, "nenhum")

DescricaoEmBranco_SemStrip(d) == d = <<>>

\* not vaga_input.descricao_vaga.strip()
DescricaoEmBranco(d) == Strip(d) = <<>>

TemDescricao_NaoNone(p) == ~p.descricao_none

\* payload.descricao_vaga is truthy
TemDescricao(p) == ~p.descricao_none /\ p.descricao_vaga # <<>>

\* payload.vaga_info is truthy
TemVagaInfo(p) == p.vaga_info # "None"

\* not payload.descricao_vaga and not payload.vaga_info
FaltaVaga(p) == ~TemDescricao(p) /\ ~TemVagaInfo(p)

Fim(r) ==
  /\ resposta' = r
  /\ hpc' = "fim"

\* analisar_vaga_endpoint up to "await analisar_vaga_ia(...)"
ReceberAnalisar ==
  /\ endpoint = "analisar" /\ hpc = "recebido"
  /\ IF DescricaoEmBranco(payload.descricao_vaga)
       THEN /\ Fim(HTTPException(400))
            /\ UNCHANGED chamadas_ia
       ELSE /\ chamadas_ia' = Append(chamadas_ia, "analisar_vaga_ia")
            /\ hpc' = "aguarda_analise"
            /\ UNCHANGED resposta
  /\ UNCHANGED <<endpoint, payload, resposta_bruta, vaga_info_dict>>
  /\ UNCHANGED cvVars
  /\ UNCHANGED concVars

\* chamar_agente_ia raises (no model, blocked or empty answer, transport):
\* both endpoints answer 500
IAFalha ==
  /\ hpc \in {"aguarda_analise", "aguarda_texto"}
  /\ Fim(HTTPException(500))
  /\ UNCHANGED <<endpoint, payload, chamadas_ia, resposta_bruta, vaga_info_dict>>
  /\ UNCHANGED cvVars
  /\ UNCHANGED concVars

\* analisar_vaga_endpoint from the AI's answer to the response
AnaliseResponde ==
  /\ endpoint = "analisar" /\ hpc = "aguarda_analise"
  /\ \E r \in RespostasAnalise :
       LET v == AnalisarVagaIA(r) IN
         /\ resposta_bruta' = r
         /\ vaga_info_dict' = v
         /\ IF EhDict(v) /\ TemError(v)
              THEN Fim(Responder(200, "VagaInfoOutput", TRUE,
                                 IF v = DictFalhaJson THEN r ELSE "nenhum"))
            ELSE IF ~EhDict(v)
              \* VagaInfoOutput(**v) raises TypeError: "except Exception"
              THEN Fim(HTTPException(500))
            ELSE IF ValidaVagaInfo(v)
              THEN Fim(Responder(200, "VagaInfoOutput", FALSE, "nenhum"))
              ELSE Fim(Responder(200, "VagaInfoOutput", TRUE, "nenhum"))
  /\ UNCHANGED <<endpoint, payload, chamadas_ia>>
  /\ UNCHANGED cvVars
  /\ UNCHANGED concVars

\* gerar_texto_cv_ia(dados_usuario, v) up to "await chamar_agente_ia(...)":
\* ValueError when v is falsy
PedirTexto(v, feitas) ==
  IF ~Verdadeiro(v)
    THEN /\ Fim(HTTPException(500))
         /\ chamadas_ia' = feitas
    ELSE /\ chamadas_ia' = Append(feitas, "gerar_texto_cv_ia")
         /\ hpc' = "aguarda_texto"
         /\ UNCHANGED resposta

\* gerar_curriculo_pdf_endpoint up to its first await
ReceberGerar ==
  /\ endpoint = "gerar" /\ hpc = "recebido"
  /\ IF FaltaVaga(payload)
       THEN /\ Fim(HTTPException(400))
            /\ UNCHANGED <<chamadas_ia, vaga_info_dict>>
     ELSE IF TemDescricao(payload) /\ ~TemVagaInfo(payload)
       THEN /\ chamadas_ia' = Append(chamadas_ia, "analisar_vaga_ia")
            /\ hpc' = "aguarda_analise"
            /\ UNCHANGED <<resposta, vaga_info_dict>>
     ELSE IF TemVagaInfo(payload)
       \* payload.vaga_info.model_dump(exclude_none=True)
       THEN LET v == IF payload.vaga_info = "vazio" THEN "dict_vazio"
                                                   ELSE "dict" IN
              /\ vaga_info_dict' = v
              /\ PedirTexto(v, chamadas_ia)
       ELSE /\ Fim(HTTPException(400))
            /\ UNCHANGED <<chamadas_ia, vaga_info_dict>>
  /\ UNCHANGED <<endpoint, payload, resposta_bruta>>
  /\ UNCHANGED cvVars
  /\ UNCHANGED concVars

\* gerar_curriculo_pdf_endpoint from the analysis to its next await
AnaliseRespondeGerar ==
  /\ endpoint = "gerar" /\ hpc = "aguarda_analise"
  /\ \E r \in RespostasAnalise :
       LET v == AnalisarVagaIA(r) IN
         /\ resposta_bruta' = r
         /\ vaga_info_dict' = v
         /\ IF EhDict(v) /\ TemError(v)
              THEN /\ Fim(HTTPException(400))
                   /\ UNCHANGED chamadas_ia
              ELSE PedirTexto(v, chamadas_ia)
  /\ UNCHANGED <<endpoint, payload>>
  /\ UNCHANGED cvVars
  /\ UNCHANGED concVars

\* the draft arrives: blank is a 500, anything else goes to
\* criar_pdf_ats_formatado(texto_cv, nome_candidato)
TextoResponde ==
  /\ endpoint = "gerar" /\ hpc = "aguarda_texto"
  /\ \E t \in TextosIA :
       IF Strip(t) = <<>>
         THEN /\ Fim(HTTPException(500))
              /\ UNCHANGED <<texto_cv, nome_candidato, pc>>
         ELSE /\ texto_cv' = t
              /\ nome_candidato' = payload.nomeCompleto
              /\ pc' = "inicio"
              /\ hpc' = "gerando_pdf"
              /\ UNCHANGED resposta
  /\ UNCHANGED <<linhas, contatos, elementos, contexto, i, chamada,
                 historico, build, doc>>
  /\ UNCHANGED <<endpoint, payload, chamadas_ia, resposta_bruta, vaga_info_dict>>
  /\ UNCHANGED concVars

\* criar_pdf_ats_formatado returned or raised: StreamingResponse(pdf_buffer)
\* or "except Exception" and HTTPException(500)
ConcluirGerar ==
  /\ endpoint = "gerar" /\ hpc = "gerando_pdf"
  /\ pc \in {"retornou", "excecao"}
  /\ IF pc = "retornou"
       THEN Fim(Responder(200, doc, FALSE, "nenhum"))
       ELSE Fim(HTTPException(500))
  /\ UNCHANGED <<endpoint, payload, chamadas_ia, resposta_bruta, vaga_info_dict>>
  /\ UNCHANGED cvVars
  /\ UNCHANGED concVars

DescricoesVaga == { <<>>, <<" ">>, <<"v">> }

PayloadsAnalisar ==
  { [descricao_vaga |-> d, descricao_none |-> FALSE, vaga_info |-> "None",
     nomeCompleto |-> <<>>] : d \in DescricoesVaga }

PayloadsGerar ==
  { p \in [descricao_vaga : DescricoesVaga, descricao_none : BOOLEAN,
           vaga_info : {"None", "vazio", "preenchido"}, nomeCompleto : Nomes] :
      p.descricao_none => p.descricao_vaga = <<>> }

InitHTTP ==
  /\ \/ endpoint = "analisar" /\ payload \in PayloadsAnalisar
     \/ endpoint = "gerar" /\ payload \in PayloadsGerar
  /\ hpc = "recebido"
  /\ chamadas_ia = <<>>
  /\ resposta_bruta = "nenhum"
  /\ vaga_info_dict = "nenhum"
  /\ resposta = SemResposta
  /\ SemPedidos
  /\ texto_cv = <<>>
  /\ nome_candidato = <<>>
  /\ linhas = <<>>
  /\ contatos = <<>>
  /\ elementos = <<>>
  /\ contexto = "inicio"
  /\ i = 1
  /\ pc = "ocioso"
  /\ chamada = SemChamada
  /\ historico = <<>>
  /\ build = "nao"
  /\ doc = "nenhum"

NextHTTP ==
  \/ ReceberAnalisar \/ AnaliseResponde \/ IAFalha
  \/ ReceberGerar \/ AnaliseRespondeGerar \/ TextoResponde
  \/ Cabecalho \/ ProcessarProxima \/ BuildOk \/ BuildFalha
  \/ ConcluirGerar

SpecHTTP == InitHTTP /\ [][NextHTTP]_vars

---------------------------------------------------------------------------
(* Several PDF generations in one process.  The endpoint is a coroutine    *)
(* and criar_pdf_ats_formatado has no await in it, so one generation runs  *)
(* from its first line to its return before another one starts; what the   *)
(* generations have in common is the module's objects.                     *)

NPedidos == 2

Pedidos == 1..NPedidos

\* "for linha in linhas[len(contatos)+1:]: contexto = processar_linha(...)"
RECURSIVE FoldLinhas(_, _, _, _)
FoldLinhas(ls, k, es, ctx) ==
  IF k > Len(ls) THEN es
  ELSE LET r == ProcessarLinha(ls[k], es, ctx)
       IN  FoldLinhas(ls, k + 1, r.elementos, r.contexto)

\* elementos as criar_pdf_ats_formatado hands it to doc.build
ElementosDe(texto, nome) ==
  LET ls == Split(texto)
      cs == ColetarContatos(Tail(ls))
  IN  FoldLinhas(ls, InicioCorpo(cs), ElementosIniciais(nome, cs), "inicio")

\* The objects behind a block sequence: Paragraph(...), Spacer(...) and
\* criar_tabela_contato(...) construct a new object at each call, while
\* "elementos.append(divisor_secao)" appends the object the module made
\* when it was imported (the first of the heap).
RECURSIVE Alocar(_, _, _, _)
Alocar(es, p, h, ids) ==
  IF es = <<>> THEN [heap |-> h, ids |-> ids]
  ELSE IF Head(es).classe = "HRFlowable"
    THEN Alocar(Tail(es), p, h, Append(ids, 1))
    ELSE Alocar(Tail(es), p,
                Append(h, [criador |-> p, bloco |-> Head(es)]),
                Append(ids, Len(h) + 1))

\* the drafts the generations are run on: up to two lines, each blank, a
\* plain line or a section heading, and one draft with contact line and body
LinhasPedido == { <<>>, <<"a">>, <<"A","B",":">> }

TextosPedido ==
  {Join(ls) : ls \in SeqsAte(LinhasPedido, 2)} \cup
  {Join(<<<<"a">>, <<"a","|","b">>, <<"A","B",":">>, <<"a">>>>)}

\* the draft of generation p has arrived: criar_pdf_ats_formatado runs to
\* its return (doc.build succeeded) or to its RuntimeError
GerarPdf(p) ==
  /\ pedidos[p].pc = "aguarda_texto"
  /\ \E t \in TextosPedido, ok \in BOOLEAN :
       LET a == Alocar(ElementosDe(t, pedidos[p].nome), p, heap, <<>>) IN
         /\ heap' = a.heap
         /\ pedidos' = [pedidos EXCEPT
                          ![p] = [pc |-> IF ok THEN "retornou" ELSE "excecao",
                                  nome |-> pedidos[p].nome,
                                  texto_cv |-> t,
                                  elementos |-> a.ids]]
  /\ UNCHANGED cvVars
  /\ UNCHANGED httpVars

InitConc ==
  /\ heap = HeapDoModulo
  /\ pedidos \in [Pedidos -> {[pc |-> "aguarda_texto", nome |-> n,
                               texto_cv |-> <<>>, elementos |-> <<>>] :
                               n \in Nomes}]
  /\ texto_cv = <<>>
  /\ nome_candidato = <<>>
  /\ linhas = <<>>
  /\ contatos = <<>>
  /\ elementos = <<>>
  /\ contexto = "inicio"
  /\ i = 1
  /\ pc = "ocioso"
  /\ chamada = SemChamada
  /\ historico = <<>>
  /\ build = "nao"
  /\ doc = "nenhum"
  /\ endpoint = "nenhum"
  /\ payload = SemPayload
  /\ hpc = "fim"
  /\ chamadas_ia = <<>>
  /\ resposta_bruta = "nenhum"
  /\ vaga_info_dict = "nenhum"
  /\ resposta = SemResposta

NextConc == \E p \in Pedidos : GerarPdf(p)

SpecConc == InitConc /\ [][NextConc]_vars

---------------------------------------------------------------------------
(* Claims about one call of processar_linha (SpecLinha) *)

Ultimo(s) == s[Len(s)]

LinhaChamada == Strip(chamada.linha)

Acrescentou(bloco) == elementos = Append(chamada.antes, bloco)

AcrescentouTitulo ==
  /\ Len(elementos) > Len(chamada.antes)
  /\ Ultimo(elementos).estilo = "TituloSecao"

\* uppercase letters as the section headings of a resume in Portuguese use them
LetrasMaiusculas == AZ \cup {"E^"}

LetrasMinusculas == {Minusculas[k] : k \in 1..26} \cup {"e^"}

\* only uppercase letters and spaces (two characters at least), ending in a
\* colon
FormaTituloSecao(l) ==
  /\ Len(l) >= 3
  /\ l[Len(l)] = ":"
  /\ \A k \in 1..(Len(l) - 1) : l[k] \in LetrasMaiusculas \cup {" "}
  /\ \E k \in 1..(Len(l) - 1) : l[k] \in LetrasMaiusculas

\* C1: a non-blank line made of uppercase letters and spaces and ending in
\* a colon is appended as a section heading whose text is the line without
\* the colon, whatever the previous context, and the context returned is
\* 'secao'; a line with a lowercase letter is never appended as a heading.
C1_TituloSecao ==
  chamada.feita =>
    /\ FormaTituloSecao(LinhaChamada) =>
          /\ AcrescentouTitulo
          /\ Ultimo(elementos) =
               Paragraph(Strip(SubSeq(LinhaChamada, 1, Len(LinhaChamada) - 1)),
                         "TituloSecao", "None")
          /\ contexto = "secao"
    /\ (\E k \in 1..Len(LinhaChamada) : LinhaChamada[k] \in LetrasMinusculas)
          => ~AcrescentouTitulo

\* C2 as first stated: in context 'secao' every non-blank line without the
\* bullet glyph is appended as a subtitle and the context becomes 'subtitulo'.
C2_Original ==
  (chamada.feita /\ LinhaChamada # <<>> /\ ~Contem(chamada.linha, BULLET)
     /\ chamada.contexto = "secao")
    => /\ Acrescentou(Paragraph(LinhaChamada, "Subtitulo", "None"))
       /\ contexto = "subtitulo"

\* C2: in context 'secao' every non-blank line without the bullet glyph
\* that does not match the section heading pattern is appended as a
\* subtitle, and the context becomes 'subtitulo'.
C2_Subtitulo ==
  (chamada.feita /\ LinhaChamada # <<>> /\ ~Contem(chamada.linha, BULLET)
     /\ chamada.contexto = "secao" /\ ~TituloSecaoMatch(LinhaChamada))
    => /\ Acrescentou(Paragraph(LinhaChamada, "Subtitulo", "None"))
       /\ contexto = "subtitulo"

C2_Witness ==
  /\ chamada.feita /\ chamada.contexto = "secao"
  /\ LinhaChamada = <<"-", "a">>
  /\ Ultimo(elementos).estilo = "Subtitulo"
  /\ contexto = "subtitulo"

ItemDe(l) == Paragraph(Strip(Tail(l)), "ItemLista", BULLET)

\* C3: a line whose first character is 'bullet', '-' or '*' is appended, in
\* every context, as a bulleted item whose text is the line without its
\* first character, trimmed, and whose glyph is 'bullet'; the context
\* returned is 'item'.
C3_Marcador ==
  (chamada.feita /\ ComecaComMarcador(chamada.linha))
    => /\ Acrescentou(ItemDe(chamada.linha))
       /\ contexto = "item"

\* What the code does with a marker line: it is a bulleted item unless the
\* subtitle rule (context 'secao', no bullet glyph in the line) or the
\* detail rule (context 'subtitulo' or 'detalhe', a '|' in the line) takes
\* the line first.
MarcadorForaDeSecao ==
  (chamada.feita /\ ComecaComMarcador(chamada.linha)
     /\ ~(chamada.contexto = "secao" /\ ~Contem(chamada.linha, BULLET))
     /\ ~(chamada.contexto \in {"subtitulo", "detalhe"}
            /\ Contem(chamada.linha, "|")))
    => /\ Acrescentou(ItemDe(chamada.linha))
       /\ contexto = "item"

MarcadorForaDeSecao_Witness ==
  /\ chamada.feita /\ chamada.contexto = "detalhe"
  /\ chamada.linha = <<"-", "*", "a">>
  /\ Ultimo(elementos) = Paragraph(<<"*", "a">>, "ItemLista", BULLET)
  /\ contexto = "item"

---------------------------------------------------------------------------
(* Claims about the fold (SpecFold) *)

FoldTerminado == pc = "loop" /\ i > Len(linhas)

\* C4 as first stated: the four example lines fold to a heading, a
\* subtitle, a detail and a bulleted item.
C4_Original ==
  (FoldTerminado /\ linhas = LinhasExemplo) =>
    /\ elementos =
         << Paragraph(SubSeq(LinhaExperiencia, 1, Len(LinhaExperiencia) - 1),
                      "TituloSecao", "None"),
            Paragraph(LinhaDesenvolvedor, "Subtitulo", "None"),
            Paragraph(LinhaEmpresa, "Detalhe", "None"),
            Paragraph(SubSeq(LinhaFezCoisas, 3, Len(LinhaFezCoisas)),
                      "ItemLista", BULLET) >>
    /\ historico = <<"secao", "subtitulo", "detalhe", "item">>

\* C4: the four example lines, folded from context 'inicio', give three
\* plain-text blocks (the first line has lowercase letters and is no
\* heading, so no subtitle or detail follows it) and one bulleted item
\* 'Fez coisas'.
C4_Exemplo ==
  (FoldTerminado /\ linhas = LinhasExemplo) =>
    /\ elementos =
         << Paragraph(LinhaExperiencia, "Detalhe", "None"),
            Paragraph(LinhaDesenvolvedor, "Detalhe", "None"),
            Paragraph(LinhaEmpresa, "Detalhe", "None"),
            Paragraph(SubSeq(LinhaFezCoisas, 3, Len(LinhaFezCoisas)),
                      "ItemLista", BULLET) >>
    /\ historico = <<"texto", "texto", "texto", "item">>

C4_Witness ==
  /\ FoldTerminado /\ linhas = LinhasExemplo
  /\ Len(elementos) = 4 /\ chamada.linha = LinhaFezCoisas
  /\ contexto = "item"

---------------------------------------------------------------------------
(* Claims about subtitles in the fold (SpecFold) *)

EhBlocoSubtitulo(b) == b.classe = "Paragraph" /\ b.estilo = "Subtitulo"

EhBlocoTitulo(b) == b.classe = "Paragraph" /\ b.estilo = "TituloSecao"

\* the call was made in context 'subtitulo' on a line that is not blank, is
\* not a section heading and does not start with a list marker
SegundaLinhaSemMarcador ==
  /\ chamada.feita /\ chamada.contexto = "subtitulo"
  /\ LinhaChamada # <<>>
  /\ ~TituloSecaoMatch(LinhaChamada)
  /\ ~ComecaComMarcador(LinhaChamada)

\* C13: folding lines through processar_linha from 'inicio', every Subtitle
\* block has a Heading block immediately before it, so between two headings
\* there is at most one Subtitle; the next line without a list marker after
\* the subtitle is appended in the detail style, as Detail (context
\* 'detalhe') when it contains '|' and as plain text (context 'texto')
\* otherwise.
C13_SubtituloSoAposTitulo ==
  /\ \A k \in 1..Len(elementos) :
       EhBlocoSubtitulo(elementos[k]) =>
         (k > 1 /\ EhBlocoTitulo(elementos[k - 1]))
  /\ \A j, k \in 1..Len(elementos) :
       (j < k /\ EhBlocoSubtitulo(elementos[j]) /\ EhBlocoSubtitulo(elementos[k]))
         => \E m \in (j + 1)..(k - 1) : EhBlocoTitulo(elementos[m])
  /\ SegundaLinhaSemMarcador =>
       /\ Acrescentou(Paragraph(LinhaChamada, "Detalhe", "None"))
       /\ contexto = IF Contem(LinhaChamada, "|") THEN "detalhe" ELSE "texto"

\* a heading, its subtitle and a line with '|' have been folded
C13_Witness ==
  /\ FoldTerminado
  /\ linhas = << <<"A","B",":">>, <<"a">>, <<"a","|","b">> >>
  /\ historico = <<"secao", "subtitulo", "detalhe">>
  /\ EhBlocoSubtitulo(elementos[2])
  /\ SegundaLinhaSemMarcador

---------------------------------------------------------------------------
(* Claims about criar_pdf_ats_formatado (SpecCV) *)

MARIA_SOUZA == <<"M","A","R","I","A"," ","S","O","U","Z","A">>

TextoEmBranco ==
  \A k \in 1..Len(texto_cv) : texto_cv[k] \in Whitespace \cup {"\n"}

Composto == pc \in {"loop", "retornou", "excecao"}

\* C5: for a resume text that is empty or only blank lines the block
\* sequence is the name block alone, its text the candidate name in
\* uppercase, and the sequence reaches the build step.
C5_TextoEmBranco ==
  (TextoEmBranco /\ Composto) =>
    /\ Len(elementos) = 1
    /\ elementos[1].classe = "Paragraph" /\ elementos[1].estilo = "Nome"
    /\ Len(elementos[1].texto) = Len(nome_candidato)
    /\ \A k \in 1..Len(nome_candidato) :
         /\ elementos[1].texto[k] \notin LetrasMinusculas
         /\ nome_candidato[k] \notin LetrasMinusculas
              => elementos[1].texto[k] = nome_candidato[k]
    /\ nome_candidato = <<"M","a","r","i","a"," ","S","o","u","z","a">>
         => elementos[1].texto = MARIA_SOUZA
    /\ pc = "loop" => (i > Len(linhas) \/ ENABLED ProcessarProxima)

C5_Witness ==
  /\ TextoEmBranco /\ Len(texto_cv) >= 3
  /\ \E k \in 1..Len(texto_cv) : texto_cv[k] = "\n"
  /\ pc = "retornou" /\ doc = "buffer"
  /\ elementos = <<Paragraph(MARIA_SOUZA, "Nome", "None")>>

Conta(es, P(_)) == Cardinality({k \in 1..Len(es) : P(es[k])})

EhSintetico(b) == b.classe \in {"Spacer", "HRFlowable"}

EhBlocoDeLinha(b) == ~EhSintetico(b) /\ b.estilo # "Nome"

EhBlocoDoCorpo(b) == b.classe = "Paragraph" /\ b.estilo # "Nome"

EhTabela(b) == b.classe = "Table"

NaoEhSpacer(b) == b.classe # "Spacer"

NaoBranca(l) == Strip(l) # <<>>

BrancaMantem ==
  (chamada.feita /\ LinhaChamada = <<>>)
    => (elementos = chamada.antes /\ contexto = chamada.contexto)

\* C6 as first stated: the blocks that are not synthetic (Spacer, Divider)
\* are one per non-blank line (the name block standing for the first line).
C6_Original ==
  /\ (pc = "loop" /\ i > Len(linhas)) =>
       Conta(elementos, EhBlocoDeLinha) = Conta(Tail(linhas), NaoBranca)
  /\ BrancaMantem

\* C6: every non-blank line after the contact run appends exactly one
\* block (with a Spacer before it when it is a heading); the contact lines
\* together make one ContactRow block; a blank line appends nothing and
\* leaves the context unchanged.
C6_UmBlocoPorLinha ==
  /\ BrancaMantem
  /\ (chamada.feita /\ LinhaChamada # <<>>) =>
       /\ Conta(elementos, NaoEhSpacer) = Conta(chamada.antes, NaoEhSpacer) + 1
       /\ Len(elementos) <= Len(chamada.antes) + 2
       /\ SubSeq(elementos, 1, Len(chamada.antes)) = chamada.antes
  /\ pc = "loop" =>
       /\ Conta(elementos, EhBlocoDoCorpo) =
            Conta(SubSeq(linhas, Len(contatos) + 2, i - 1), NaoBranca)
       /\ Conta(elementos, EhTabela) = (IF contatos = <<>> THEN 0 ELSE 1)

C6_Witness ==
  /\ pc = "loop" /\ i > Len(linhas)
  /\ Len(contatos) = 1
  /\ Len(linhas) = 4
  /\ Strip(linhas[3]) = <<>>
  /\ TituloSecaoMatch(Strip(linhas[4]))
  /\ Len(elementos) = 5
  /\ Conta(elementos, EhBlocoDoCorpo) = 1
  /\ Conta(elementos, EhTabela) = 1

LinhaDeContato(l) == Strip(l) # <<>> /\ ~TituloSecaoMatch(Strip(l))

\* C7: the contact lines are the run of lines that starts right after the
\* first line and ends before the first line that is blank or a heading;
\* the lines given to processar_linha are the lines after that run, each
\* once and in order.
C7_PrefixoDeContatos ==
  pc # "inicio" =>
    /\ Len(contatos) + 1 <= Len(linhas)
    /\ \A k \in 1..Len(contatos) :
         LinhaDeContato(linhas[k + 1]) /\ contatos[k] = Strip(linhas[k + 1])
    /\ Len(contatos) + 2 <= Len(linhas)
         => ~LinhaDeContato(linhas[Len(contatos) + 2])
    /\ i >= Len(contatos) + 2
    /\ Len(historico) = i - (Len(contatos) + 2)
    /\ chamada.feita => chamada.linha = linhas[i - 1]
    /\ pc # "loop" => i = Len(linhas) + 1

C7_Witness ==
  /\ pc = "retornou"
  /\ Len(linhas) = 4
  /\ Len(contatos) = 1
  /\ TituloSecaoMatch(Strip(linhas[3]))
  /\ Len(historico) = 2

---------------------------------------------------------------------------
(* Claims about the endpoints (SpecHTTP) *)

\* answers of the AI that are not the text of a JSON object
NaoEhObjetoJson ==
  {"chaves_invalidas", "sem_json", "json_nao_objeto", "json_falso"}

\* C8: when the analysis answer of the AI is not the text of a JSON object,
\* the request that asked for the analysis does not fail: it ends with
\* status 200, an error marker and the raw text.
C8_AnaliseNaoFatal ==
  (hpc = "fim" /\ resposta_bruta \in NaoEhObjetoJson /\ Len(chamadas_ia) = 1)
    => /\ resposta.status = 200
       /\ resposta.error
       /\ resposta.raw_response = resposta_bruta

SoEspacos(d) == \A k \in 1..Len(d) : d[k] \in Whitespace

RequisicaoSemVaga ==
  \/ /\ endpoint = "gerar"
     /\ payload.descricao_none \/ payload.descricao_vaga = <<>>
     /\ payload.vaga_info = "None"
  \/ /\ endpoint = "analisar"
     /\ SoEspacos(payload.descricao_vaga)

\* C9: a request to /gerar-curriculo-pdf with neither descricao_vaga nor
\* vaga_info, or to /analisar-vaga with a blank descricao_vaga, ends with
\* status 400 and at no point of it is the AI called.
C9_RejeitaAntesDaIA ==
  RequisicaoSemVaga =>
    /\ chamadas_ia = <<>>
    /\ hpc \in {"recebido", "fim"}
    /\ hpc = "fim" => resposta.status = 400

C9_Witness ==
  /\ endpoint = "gerar" /\ hpc = "fim"
  /\ ~payload.descricao_none /\ payload.descricao_vaga = <<>>
  /\ payload.vaga_info = "None"
  /\ resposta.status = 400 /\ chamadas_ia = <<>>

\* C10: /gerar-curriculo-pdf answers with the PDF buffer only when
\* doc.build ended without error; when doc.build fails,
\* criar_pdf_ats_formatado raises RuntimeError, the request ends with
\* status 500 and no buffer is in the response.
C10_SemPdfParcial ==
  /\ resposta.corpo = "buffer" => (build = "ok" /\ resposta.status = 200)
  /\ resposta.status = 200 /\ endpoint = "gerar" => resposta.corpo = "buffer"
  /\ build = "falhou" =>
       /\ doc = "RuntimeError"
       /\ hpc = "fim" => (resposta.status = 500 /\ resposta.corpo = "detail")

C10_Witness ==
  /\ endpoint = "gerar" /\ hpc = "fim"
  /\ build = "falhou" /\ doc = "RuntimeError"
  /\ Len(elementos) >= 5
  /\ resposta.status = 500

---------------------------------------------------------------------------
(* Claims about the Spacer before a section heading (SpecCV) *)

EhSpacer(b) == b.classe = "Spacer"

PrimeiroTitulo(es, k) == \A j \in 1..(k - 1) : ~EhBlocoTitulo(es[j])

SpacerAntes(es, k) == k > 1 /\ EhSpacer(es[k - 1])

\* C12: in the block sequence of criar_pdf_ats_formatado the heading of
\* every section after the first has a Spacer immediately before it and
\* the heading of the first section has none; a call of processar_linha
\* that receives an empty sequence appends no Spacer.
C12_SpacerEntreSecoes ==
  /\ \A k \in 1..Len(elementos) :
       EhBlocoTitulo(elementos[k]) =>
         IF PrimeiroTitulo(elementos, k)
           THEN ~SpacerAntes(elementos, k)
           ELSE SpacerAntes(elementos, k)
  /\ (chamada.feita /\ chamada.antes = <<>>) => Conta(elementos, EhSpacer) = 0

\* What does hold: the name block is in the sequence before the first call,
\* so every heading, the first included, has a Spacer immediately before it.
SpacerAntesDeTodoTitulo ==
  \A k \in 1..Len(elementos) :
    EhBlocoTitulo(elementos[k]) => SpacerAntes(elementos, k)

---------------------------------------------------------------------------
(* Claims about generations in one process (SpecConc) *)

ObjetosDe(p) == {pedidos[p].elementos[k] : k \in 1..Len(pedidos[p].elementos)}

\* C11: the generations share no object: every block in the block sequence
\* of a generation is an object created by that generation, and no object
\* is in the block sequences of two generations.
C11_SemObjetoCompartilhado ==
  /\ \A p \in Pedidos : \A o \in ObjetosDe(p) : heap[o].criador = p
  /\ \A p, q \in Pedidos : p # q => ObjetosDe(p) \cap ObjetosDe(q) = {}

\* What does hold: the one object of a block sequence that its generation
\* did not create is the module's divisor_secao.
SoDivisorCompartilhado ==
  \A p \in Pedidos : \A o \in ObjetosDe(p) :
    heap[o].criador # p => (o = 1 /\ heap[o].bloco = divisor_secao)

====
